---------------------------- MODULE Spec2Model ----------------------------
(***************************************************************************)
(* A model of noaa_sdk/noaa.py (class NOAA): the forecast path             *)
(* (get_forecasts / points_forecast), the observation generator            *)
(* (get_observations_by_lat_lon) and stations_observations.                *)
(*                                                                         *)
(* Python dicts are functions whose DOMAIN is the set of keys present, so  *)
(* that `k in d` is k \in DOMAIN d and d[k] on a missing key is a KeyError.*)
(* Python strings that the code slices, measures or rewrites are sequences *)
(* of one-character strings.  Python None is the string "None".            *)
(* The transport (UTIL.make_get_request) answers every request with a      *)
(* document chosen nondeterministically; each request is one step.         *)
(***************************************************************************)
EXTENDS Integers, Sequences, FiniteSets, TLC

VARIABLES
    op,            \* the public method being executed, "idle" before the call
    pc,            \* position inside that method
    args,          \* the arguments of the call
    requests,      \* every transport request issued by the call, in order
    replies,       \* the document the transport returned to each request
    data_type,     \* get_forecasts / points_forecast: data_type once wrapped
    uri,           \* points_forecast: the uri about to be fetched
    points,        \* the points-metadata document once fetched
    responses,     \* points_forecast: the local list `responses`
    params,        \* stations_observations: the keyword arguments, as normalized
    request_uri,   \* stations_observations: the request about to be issued
    stations_observations_params,   \* generator: the keyword arguments it passes on
    points_res,    \* generator: the points-metadata document
    stations,      \* generator: the station list
    index,         \* generator: index of the station in progress, from 0
    observations,  \* generator: the observations of the station in progress
    cursor,        \* generator: how many of them have been yielded
    delivered,     \* the records the consumer has received, in order
    pulls,         \* how many times the consumer has asked for a record
    outcome        \* what the call returned or raised

forecastVars == <<data_type, uri, points, responses>>

observationVars == <<params, request_uri>>

streamVars == <<stations_observations_params, points_res, stations, index, observations,
                cursor, delivered, pulls>>

vars == <<op, pc, args, requests, replies, outcome, forecastVars, observationVars,
          streamVars>>

-----------------------------------------------------------------------------
(* Bounds *)

\* longest data_type list passed to get_forecasts / points_forecast
MaxTypes == 2

\* longest station list the observationStations resource returns
MaxStations == 3

-----------------------------------------------------------------------------
(* Values *)

Empty == [k \in {} |-> 0]

HasKey(d, k) == k \in DOMAIN d

NoOutcome == [kind |-> "none"]

Return(v) == [kind |-> "return", value |-> v]

\* info: what the exception carries besides its message (a dict)
Raise(exc, msg, info) == [kind |-> "raise", exc |-> exc, msg |-> msg, info |-> info]

Get(path) == [path |-> path, hasQuery |-> FALSE, query |-> Empty]

SeqsUpTo(S, n) == UNION {[1..k -> S] : k \in 0..n}

-----------------------------------------------------------------------------
(* Upstream documents of the forecast path *)

ForecastLink == <<"gridpoints", "OKX", "33,37", "forecast">>

HourlyLink == <<"gridpoints", "OKX", "33,37", "forecast", "hourly">>

GridLink == <<"gridpoints", "OKX", "33,37">>

StationsLink == <<"gridpoints", "OKX", "33,37", "stations">>

AllLinks ==
    [forecast |-> ForecastLink, forecastHourly |-> HourlyLink,
     forecastGridData |-> GridLink, observationStations |-> StationsLink]

\* the documents the points resource may answer with
PointsDocs ==
    { Empty,
      [status |-> 503, detail |-> "d1"],
      [properties |-> AllLinks],
      [properties |-> [forecast |-> ForecastLink, observationStations |-> StationsLink]],
      [properties |-> [forecastHourly |-> HourlyLink, forecastGridData |-> GridLink]] }

PropsA == [periods |-> <<"pA1", "pA2">>, elevation |-> "eA"]

PropsB == [periods |-> <<"pB1">>, elevation |-> "eB"]

PropsG == [elevation |-> "eG"]

ErrorMarks ==
    { [status |-> 503, detail |-> "d1"],
      [status |-> 503, detail |-> "d2"],
      [status |-> 503],
      [status |-> 500, detail |-> "d1"],
      [detail |-> "d1"] }

\* the documents a forecast resource may answer with
ForecastDocs ==
    { Empty, [properties |-> PropsA], [properties |-> PropsB], [properties |-> PropsG] }
    \cup ErrorMarks
    \cup { m @@ [properties |-> PropsA] : m \in ErrorMarks }

-----------------------------------------------------------------------------
(* get_forecasts and points_forecast *)

DataTypes == {"hourly", "grid", "None", "daily"}

\* a data_type argument: a scalar or a list
DataTypeArgs ==
    { [list |-> FALSE, item |-> d, items |-> <<>>] : d \in DataTypes }
    \cup { [list |-> TRUE, item |-> "None", items |-> s] : s \in SeqsUpTo(DataTypes, MaxTypes) }

\* if type(data_type) is not list: data_type = [data_type]
AsList(a) == IF a.list THEN a.items ELSE <<a.item>>

AssertFirstDataType(dts) == dts = <<>> \/ dts[1] \in {"hourly", "grid", "None"}

\* for dtype in data_type: assert dtype in ["hourly", "grid", None]
AssertDataTypes(dts) == \A i \in 1..Len(dts) : dts[i] \in {"hourly", "grid", "None"}

PointsRequest == Get(<<"points", "lat,long">>)

KeyErr(k) == [ok |-> FALSE, key |-> k, uri |-> <<>>]

\* the uri selection of points_forecast's loop body; a missing key is a KeyError
SelectUri(pts, dtype) ==
    IF ~HasKey(pts, "properties") THEN KeyErr("properties")
    ELSE IF ~HasKey(pts["properties"], "forecast") THEN KeyErr("forecast")
    ELSE IF dtype = "hourly"
         THEN IF ~HasKey(pts["properties"], "forecastHourly") THEN KeyErr("forecastHourly")
              ELSE [ok |-> TRUE, key |-> "", uri |-> pts["properties"]["forecastHourly"]]
    ELSE IF dtype = "grid"
         THEN IF ~HasKey(pts["properties"], "forecastGridData") THEN KeyErr("forecastGridData")
              ELSE [ok |-> TRUE, key |-> "", uri |-> pts["properties"]["forecastGridData"]]
    ELSE [ok |-> TRUE, key |-> "", uri |-> pts["properties"]["forecast"]]

CheckDocPropertiesFirst(dtype, res) ==
    IF ~HasKey(res, "properties") THEN "properties"
    ELSE IF HasKey(res, "status") /\ res["status"] = 503 /\ HasKey(res, "detail")
    THEN "upstream"
    ELSE IF ~HasKey(res["properties"], "periods") /\ dtype # "grid" THEN "periods"
    ELSE ""

\* the checks get_forecasts makes on one fetched document; "" when it passes
CheckDoc(dtype, res) ==
    IF HasKey(res, "status") /\ res["status"] = 503 /\ HasKey(res, "detail")
    THEN "upstream"
    ELSE IF ~HasKey(res, "properties") THEN "properties"
    ELSE IF ~HasKey(res["properties"], "periods") /\ dtype # "grid" THEN "periods"
    ELSE ""

\* to_return.append(...)
ProjectDoc(dtype, res) ==
    IF dtype = "grid" THEN res["properties"] ELSE res["properties"]["periods"]

ZipPairReversed(dts, results, i) == [dtype |-> dts[i], res |-> results[Len(results) + 1 - i]]

\* zip(data_type, results): the i-th pair
ZipPair(dts, results, i) == [dtype |-> dts[i], res |-> results[i]]

ZipLen(dts, results) == IF Len(dts) < Len(results) THEN Len(dts) ELSE Len(results)

RECURSIVE ForecastLoop(_, _, _, _)
\* the loop over zip(data_type, results) from pair i on, to_return so far
ForecastLoop(dts, results, i, to_return) ==
    IF i > ZipLen(dts, results) THEN Return(to_return)
    ELSE LET p == ZipPair(dts, results, i)
             c == CheckDoc(p.dtype, p.res)
         IN  IF c = "upstream"
             THEN Raise("Exception", "Status: {}, NOAA API Error Response: {}",
                        [status |-> p.res["status"], detail |-> p.res["detail"]])
             ELSE IF c = "properties"
             THEN Raise("Exception",
                        "\"properties\" attribute not found. Possible response json changes",
                        Empty)
             ELSE IF c = "periods"
             THEN Raise("Exception",
                        "\"periods\" attribute not found. Possible response json changes",
                        Empty)
             ELSE ForecastLoop(dts, results, i + 1,
                               Append(to_return, ProjectDoc(p.dtype, p.res)))

\* what get_forecasts does with the list points_forecast returned
GetForecastsTail(a, dts, results) ==
    LET r == ForecastLoop(dts, results, 1, <<>>)
    IN  IF r.kind = "return" /\ a.return_result_object
        THEN Return([forecasts |-> r.value, result_object |-> "zipcode"])
        ELSE r

\* the end of points_forecast: `return responses`, and its caller's continuation
PointsForecastReturn(results) ==
    IF op = "get_forecasts" THEN GetForecastsTail(args, data_type, results)
    ELSE Return(results)

\* points_forecast from the top of iteration i of its second loop up to the
\* next transport request, the return or the KeyError
PointsForecastLoop(pts, results, i) ==
    IF i > Len(data_type)
    THEN /\ pc' = "done"
         /\ outcome' = PointsForecastReturn(results)
         /\ uri' = <<>>
    ELSE LET u == SelectUri(pts, data_type[i])
         IN  IF u.ok
             THEN /\ pc' = "forecast"
                  /\ uri' = u.uri
                  /\ outcome' = outcome
             ELSE /\ pc' = "done"
                  /\ uri' = <<>>
                  /\ outcome' = Raise("KeyError", u.key, Empty)

\* points_forecast up to its first transport request
PointsForecastEnter(a, dts) ==
    /\ args' = a
    /\ data_type' = dts
    /\ IF AssertDataTypes(dts)
       THEN /\ pc' = "points"
            /\ outcome' = outcome
       ELSE /\ pc' = "done"
            /\ outcome' = Raise("AssertionError", "", Empty)
    /\ UNCHANGED <<requests, replies, uri, points, responses, observationVars, streamVars>>

\* get_forecasts(postal_code, country, data_type, return_result_object):
\* the geocoder either knows the postal code or raises InvalidZipCodeError
CallGetForecasts ==
    /\ op = "idle"
    /\ op' = "get_forecasts"
    /\ \E dt \in DataTypeArgs, rro \in BOOLEAN, known \in BOOLEAN :
         LET a == [data_type |-> dt, return_result_object |-> rro, known |-> known]
         IN  IF known
             THEN PointsForecastEnter(a, AsList(dt))
             ELSE /\ args' = a
                  /\ pc' = "done"
                  /\ outcome' = Raise("InvalidZipCodeError", "Invalid ZIP Code", Empty)
                  /\ UNCHANGED <<requests, replies, forecastVars, observationVars,
                               streamVars>>

\* points_forecast(lat, long, data_type) called directly
CallPointsForecast ==
    /\ op = "idle"
    /\ op' = "points_forecast"
    /\ \E dt \in DataTypeArgs :
         PointsForecastEnter([data_type |-> dt, return_result_object |-> FALSE,
                              known |-> TRUE], AsList(dt))

\* points = self.make_get_request("/points/{lat},{long}") and what follows it
FetchPoints ==
    /\ op \in {"get_forecasts", "points_forecast"}
    /\ pc = "points"
    /\ \E doc \in PointsDocs :
         /\ requests' = Append(requests, PointsRequest)
         /\ replies' = Append(replies, doc)
         /\ points' = doc
         /\ PointsForecastLoop(doc, responses, 1)
    /\ UNCHANGED <<op, args, data_type, responses, observationVars, streamVars>>

\* response = self.make_get_request(uri=uri); responses.append(response)
FetchForecast ==
    /\ op \in {"get_forecasts", "points_forecast"}
    /\ pc = "forecast"
    /\ \E doc \in ForecastDocs :
         /\ requests' = Append(requests, Get(uri))
         /\ replies' = Append(replies, doc)
         /\ responses' = Append(responses, doc)
         /\ PointsForecastLoop(points, Append(responses, doc), Len(responses) + 2)
    /\ UNCHANGED <<op, args, data_type, points, observationVars, streamVars>>

-----------------------------------------------------------------------------
(* Timestamps: strings as sequences of characters *)

Digits == {"0", "1", "2", "3", "4", "5", "6", "7", "8", "9"}

DigitValue(c) ==
    CASE c = "0" -> 0 [] c = "1" -> 1 [] c = "2" -> 2 [] c = "3" -> 3 [] c = "4" -> 4
      [] c = "5" -> 5 [] c = "6" -> 6 [] c = "7" -> 7 [] c = "8" -> 8 [] c = "9" -> 9

RECURSIVE NumValue(_)
NumValue(s) ==
    IF s = <<>> THEN 0
    ELSE NumValue(SubSeq(s, 1, Len(s) - 1)) * 10 + DigitValue(s[Len(s)])

\* one to maxlen digits
IsNumber(s, maxlen) == Len(s) \in 1..maxlen /\ \A i \in 1..Len(s) : s[i] \in Digits

Positions(s, c) == {i \in 1..Len(s) : s[i] = c}

DaysIn(y, m) ==
    IF m \in {4, 6, 9, 11} THEN 30
    ELSE IF m = 2
         THEN IF (y % 4 = 0 /\ y % 100 # 0) \/ y % 400 = 0 THEN 29 ELSE 28
    ELSE 31

\* %Y-%m-%d: a four-digit year, month and day of one or two digits
MatchDate(s) ==
    \E i \in Positions(s, "-") : \E j \in Positions(s, "-") :
        /\ i < j
        /\ LET y == SubSeq(s, 1, i - 1)
               m == SubSeq(s, i + 1, j - 1)
               d == SubSeq(s, j + 1, Len(s))
           IN  /\ Len(y) = 4
               /\ IsNumber(y, 4)
               /\ NumValue(y) >= 1
               /\ IsNumber(m, 2)
               /\ NumValue(m) \in 1..12
               /\ IsNumber(d, 2)
               /\ NumValue(d) \in 1..DaysIn(NumValue(y), NumValue(m))

\* %H:%M:%S: each field of one or two digits
MatchTime(s) ==
    \E i \in Positions(s, ":") : \E j \in Positions(s, ":") :
        /\ i < j
        /\ LET h == SubSeq(s, 1, i - 1)
               m == SubSeq(s, i + 1, j - 1)
               x == SubSeq(s, j + 1, Len(s))
           IN  /\ IsNumber(h, 2)
               /\ NumValue(h) \in 0..23
               /\ IsNumber(m, 2)
               /\ NumValue(m) \in 0..59
               /\ IsNumber(x, 2)
               /\ NumValue(x) \in 0..59

\* %Y-%m-%dT%H:%M:%SZ
MatchDateTimeZ(s) ==
    /\ Len(s) >= 1
    /\ s[Len(s)] = "Z"
    /\ \E i \in Positions(s, "T") :
          /\ MatchDate(SubSeq(s, 1, i - 1))
          /\ MatchTime(SubSeq(s, i + 1, Len(s) - 1))

\* %Y-%m-%d %H:%M:%S: the blank of the format stands for one or more blanks
MatchDateSpaceTime(s) ==
    \E i \in Positions(s, " ") : \E j \in Positions(s, " ") :
        /\ i <= j
        /\ \A k \in i..j : s[k] = " "
        /\ MatchDate(SubSeq(s, 1, i - 1))
        /\ MatchTime(SubSeq(s, j + 1, Len(s)))

\* self.parse_param_timestamp(value): TRUE when the value is accepted
ParseParamTimestamp(s) == MatchDateTimeZ(s) \/ MatchDate(s) \/ MatchDateSpaceTime(s)

\* s[:n]
Take(s, n) == SubSeq(s, 1, IF Len(s) < n THEN Len(s) ELSE n)

\* s.replace(a, b) for single characters
ReplaceChar(s, a, b) == [i \in 1..Len(s) |-> IF s[i] = a THEN b ELSE s[i]]

StartOfDay == <<"T", "0", "0", ":", "0", "0", ":", "0", "0", "Z">>

EndOfDay == <<"T", "2", "3", ":", "5", "9", ":", "5", "9", "Z">>

\* the padding of params['start']
PadStart(start) ==
    IF Len(start) < 19 THEN Take(start, 10) \o StartOfDay
    ELSE IF Len(start) < 20 THEN ReplaceChar(start, " ", "T") \o <<"Z">>
    ELSE start

\* the padding of params['end']
PadEnd(end) ==
    IF Len(end) < 19 THEN Take(end, 10) \o EndOfDay
    ELSE IF Len(end) < 20 THEN ReplaceChar(end, " ", "T") \o <<"Z">>
    ELSE end

\* urllib's quote_plus on one character
QuoteChar(c) ==
    IF c = " " THEN <<"+">>
    ELSE IF c = ":" THEN <<"%", "3", "A">>
    ELSE IF c = "/" THEN <<"%", "2", "F">>
    ELSE <<c>>

RECURSIVE QuotePlus(_)
QuotePlus(s) == IF s = <<>> THEN <<>> ELSE QuoteChar(Head(s)) \o QuotePlus(Tail(s))

\* urlencode(params): each key with its quoted value
UrlEncode(p) == [k \in DOMAIN p |-> QuotePlus(p[k])]

GetWithQuery(path, p) == [path |-> path, hasQuery |-> TRUE, query |-> UrlEncode(p)]

-----------------------------------------------------------------------------
(* stations_observations *)

Year2020 == <<"2", "0", "2", "0">>

DateArgs ==
    { Year2020 \o <<"-">> \o m \o <<"-">> \o d :
        m \in {<<"2">>, <<"0", "2">>}, d \in {<<"1">>, <<"0", "1">>} }

TimeArgs == { <<"7", ":", "5", ":", "9">>, <<"0", "7", ":", "0", "5", ":", "0", "9">> }

\* the start / end values a caller passes: the three formats with and without
\* zero padding, and four further values
TimestampArgs ==
    DateArgs
    \cup { d \o <<" ">> \o t : d \in DateArgs, t \in TimeArgs }
    \cup { d \o <<"T">> \o t \o <<"Z">> : d \in DateArgs, t \in TimeArgs }
    \cup { <<"2", "0", "2", "0", "-", "0", "2", "-", "3", "0">>,
           <<"2", "0", "2", "0", "/", "0", "2", "/", "0", "1">>,
           <<"2", "0", "2", "0", "-", "0", "2", "-", "0", "1", "T",
             "0", "7", ":", "0", "5", ":", "0", "9">>,
           <<"2", "0", "2", "0", "-", "0", "2", "-", "0", "1", " ", " ",
             "0", "7", ":", "0", "5", ":", "0", "9">> }

\* the keyword arguments of a stations_observations call
ParamArgs ==
    { s @@ e @@ l @@ c @@ r :
        s \in {Empty} \cup { "start" :> t : t \in TimestampArgs },
        e \in {Empty} \cup { "end" :> t : t \in TimestampArgs },
        l \in {Empty, "limit" :> <<"5">>},
        c \in {Empty, "current" :> TRUE, "current" :> FALSE},
        r \in {Empty, "recordId" :> "rec1"} }

StationIdArgs == {"", "KJFK"}

Feature1 == [properties |-> "obs1"]

Feature2 == [properties |-> "obs2"]

FeatureBare == [id |-> "obs3"]

\* the documents an observations resource may answer with
ObservationDocs ==
    { [features |-> <<>>],
      [features |-> <<Feature1>>],
      [features |-> <<Feature1, Feature2>>],
      [features |-> <<FeatureBare>>],
      [status |-> 503, detail |-> "d1"] }

ConflictingModesTruthy(p) ==
    /\ HasKey(p, "recordId")
    /\ HasKey(p, "current")
    /\ p["current"]

\* 'recordId' in params and 'current' in params
ConflictingModes(p) == HasKey(p, "recordId") /\ HasKey(p, "current")

\* the start block (lines 296-304): the padded mapping
NormalizeStart(p) ==
    IF HasKey(p, "start") THEN [p EXCEPT !["start"] = PadStart(p["start"])] ELSE p

\* the end block (lines 305-313)
NormalizeEnd(p) ==
    IF HasKey(p, "end") THEN [p EXCEPT !["end"] = PadEnd(p["end"])] ELSE p

ObservationsPath(sid) == <<"stations", sid, "observations">>

\* whether the branch taken returns the transport's document as it is
ReturnsDocument(p) ==
    HasKey(p, "recordId") \/ HasKey(p, "current") \/ Cardinality(DOMAIN p) = 0

\* the request stations_observations builds from the normalized mapping
BuildRequest(sid, p) ==
    IF Cardinality(DOMAIN p) > 0
    THEN IF HasKey(p, "recordId")
         THEN Get(ObservationsPath(sid) \o <<p["recordId"]>>)
         ELSE IF HasKey(p, "current")
         THEN Get(ObservationsPath(sid) \o <<"current">>)
         ELSE IF Cardinality(DOMAIN p) > 1
         THEN GetWithQuery(ObservationsPath(sid), p)
         ELSE Get(ObservationsPath(sid))
    ELSE Get(ObservationsPath(sid))

TimestampError(value) ==
    Raise("Exception", "does not match with any of those formats", [value |-> value])

\* stations_observations up to its transport request: the exception raised,
\* or the normalized mapping and the request
StationsObservationsEnter(sid, p) ==
    IF sid = ""
    THEN [ok |-> FALSE, outcome |-> Raise("Exception", "'station_id' is required.", Empty),
          params |-> p, request |-> Get(<<>>)]
    ELSE IF ConflictingModes(p)
    THEN [ok |-> FALSE,
          outcome |-> Raise("Exception", "Cannot have both 'current' and 'recordId'", Empty),
          params |-> p, request |-> Get(<<>>)]
    ELSE IF HasKey(p, "start") /\ ~ParseParamTimestamp(p["start"])
    THEN [ok |-> FALSE, outcome |-> TimestampError(p["start"]),
          params |-> p, request |-> Get(<<>>)]
    ELSE IF HasKey(p, "end") /\ ~ParseParamTimestamp(p["end"])
    THEN [ok |-> FALSE, outcome |-> TimestampError(p["end"]),
          params |-> NormalizeStart(p), request |-> Get(<<>>)]
    ELSE LET q == NormalizeEnd(NormalizeStart(p))
         IN  [ok |-> TRUE, outcome |-> NoOutcome, params |-> q,
              request |-> BuildRequest(sid, q)]

\* stations_observations after its transport request
StationsObservationsExit(p, doc) ==
    IF ReturnsDocument(p) THEN Return(doc)
    ELSE IF ~HasKey(doc, "features") THEN Raise("Exception", "", doc)
    ELSE Return(doc["features"])

\* stations_observations(station_id, **params) called directly
CallStationsObservations ==
    /\ op = "idle"
    /\ op' = "stations_observations"
    /\ \E sid \in StationIdArgs, p \in ParamArgs :
         LET e == StationsObservationsEnter(sid, p)
         IN  /\ args' = [station_id |-> sid, params |-> p]
             /\ params' = e.params
             /\ request_uri' = e.request
             /\ outcome' = e.outcome
             /\ pc' = IF e.ok THEN "request" ELSE "done"
    /\ UNCHANGED <<requests, replies, forecastVars, streamVars>>

\* self.make_get_request(request_uri) and the rest of stations_observations
FetchObservations ==
    /\ op = "stations_observations"
    /\ pc = "request"
    /\ \E doc \in ObservationDocs :
         /\ requests' = Append(requests, request_uri)
         /\ replies' = Append(replies, doc)
         /\ outcome' = StationsObservationsExit(params, doc)
    /\ pc' = "done"
    /\ UNCHANGED <<op, args, params, request_uri, forecastVars, streamVars>>

-----------------------------------------------------------------------------
(* get_observations and get_observations_by_lat_lon: the observation generator *)

StationUrl(i) == <<"https:", "", "api.weather.gov", "stations", "K" \o ToString(i)>>

\* the documents the observationStations resource may answer with
StationListDocs ==
    { [title |-> "stations"] }
    \cup { [observationStations |-> [i \in 1..n |-> StationUrl(i)]] : n \in 0..MaxStations }

\* start / end of the generator: <<>> is None or '', then an accepted and a
\* rejected value
StartArgs ==
    { <<>>,
      <<"2", "0", "2", "0", "-", "0", "2", "-", "0", "1">>,
      <<"2", "0", "2", "0", "/", "0", "2", "/", "0", "1">> }

EndArgs == { <<>>, <<"2", "0", "2", "0", "-", "0", "2", "-", "0", "1">> }

NumOfStationsArgs == (0 - 1)..(MaxStations + 1)

ObservationArgs ==
    [start : StartArgs, end : EndArgs, num_of_stations : NumOfStationsArgs]

\* stations_observations_params (lines 150-154)
StreamParams(a) ==
    (IF a.start # <<>> THEN "start" :> a.start ELSE Empty)
    @@ (IF a.end # <<>> THEN "end" :> a.end ELSE Empty)

\* station.split('/')[-1]
StationIdOf(station) == station[Len(station)]

\* if num_of_stations > 0 and num_of_stations <= index: break
BreaksAt(num, idx) == num > 0 /\ num <= idx

\* observation.get('properties')
GetProperties(observation) ==
    IF HasKey(observation, "properties") THEN observation["properties"] ELSE "None"

YieldsOnlyFirst(obs, cur) == cur = 0 /\ cur < Len(obs)

\* whether `for observation in observations` has another element
HasNextObservation(obs, cur) == cur < Len(obs)

Exhausted == [kind |-> "exhausted"]

\* the generator from the top of iteration idx (counted from 0) of
\* `for index, station in enumerate(stations)` up to the next transport
\* request, the end of the generator or an exception of stations_observations
StationLoop(sts, idx) ==
    IF idx >= Len(sts) \/ BreaksAt(args.num_of_stations, idx)
    THEN /\ pc' = "finished"
         /\ outcome' = Exhausted
         /\ UNCHANGED <<index, params, request_uri>>
    ELSE LET e == StationsObservationsEnter(StationIdOf(sts[idx + 1]),
                                            stations_observations_params)
         IN  /\ index' = idx
             /\ params' = e.params
             /\ request_uri' = e.request
             /\ outcome' = e.outcome
             /\ pc' = IF e.ok THEN "gen_observations" ELSE "raised"

\* get_observations(postalcode, country, start, end, num_of_stations): the
\* geocoder raises, or the generator of get_observations_by_lat_lon is returned
CallGetObservations ==
    /\ op = "idle"
    /\ \E a \in ObservationArgs, known \in BOOLEAN :
         /\ args' = a
         /\ IF known
            THEN /\ op' = "get_observations_by_lat_lon"
                 /\ pc' = "created"
                 /\ outcome' = outcome
            ELSE /\ op' = "get_observations"
                 /\ pc' = "done"
                 /\ outcome' = Raise("InvalidZipCodeError", "Invalid ZIP Code", Empty)
    /\ UNCHANGED <<requests, replies, forecastVars, observationVars, streamVars>>

\* get_observations_by_lat_lon(lat, lon, start, end, num_of_stations): a
\* generator function, so the call runs none of its body
CallGetObservationsByLatLon ==
    /\ op = "idle"
    /\ op' = "get_observations_by_lat_lon"
    /\ pc' = "created"
    /\ \E a \in ObservationArgs : args' = a
    /\ UNCHANGED <<requests, replies, outcome, forecastVars, observationVars, streamVars>>

\* the consumer asks for the next record: the generator runs from where it is
\* suspended to its next transport request, yield, end or exception
ConsumerNext ==
    /\ op = "get_observations_by_lat_lon"
    /\ pc \in {"created", "suspended"}
    /\ pulls' = pulls + 1
    /\ IF pc = "created"
       THEN /\ stations_observations_params' = StreamParams(args)
            /\ pc' = "gen_points"
            /\ UNCHANGED <<outcome, observationVars, points_res, stations, index,
                           observations, cursor, delivered>>
       ELSE IF HasNextObservation(observations, cursor)
       THEN /\ cursor' = cursor + 1
            /\ delivered' = Append(delivered, GetProperties(observations[cursor + 1]))
            /\ pc' = "suspended"
            /\ UNCHANGED <<outcome, observationVars, stations_observations_params,
                           points_res, stations, index, observations>>
       ELSE /\ StationLoop(stations, index + 1)
            /\ UNCHANGED <<stations_observations_params, points_res, stations,
                           observations, cursor, delivered>>
    /\ UNCHANGED <<op, args, requests, replies, forecastVars>>

\* the consumer stops iterating: the suspended generator is never resumed
ConsumerAbandon ==
    /\ op = "get_observations_by_lat_lon"
    /\ pc \in {"created", "suspended"}
    /\ pc' = "closed"
    /\ UNCHANGED <<op, args, requests, replies, outcome, forecastVars, observationVars,
                   streamVars>>

\* points_res = self.points('{},{}'.format(round(lat, 4), round(lon, 4)))
GenFetchPoints ==
    /\ op = "get_observations_by_lat_lon"
    /\ pc = "gen_points"
    /\ \E doc \in PointsDocs :
         /\ requests' = Append(requests, Get(<<"points", "lat,lon">>))
         /\ replies' = Append(replies, doc)
         /\ points_res' = doc
         /\ IF ~HasKey(doc, "properties")
               \/ ~HasKey(doc["properties"], "observationStations")
            THEN /\ pc' = "raised"
                 /\ outcome' = Raise("Exception", "Error: No Observation Stations found.",
                                     Empty)
            ELSE /\ pc' = "gen_stations"
                 /\ outcome' = outcome
    /\ UNCHANGED <<op, args, forecastVars, observationVars, stations_observations_params,
                   stations, index, observations, cursor, delivered, pulls>>

\* stations = self.make_get_request(uri=...)['observationStations'] and the
\* first iteration of the loop
GenFetchStations ==
    /\ op = "get_observations_by_lat_lon"
    /\ pc = "gen_stations"
    /\ \E doc \in StationListDocs :
         /\ requests' = Append(requests, Get(points_res["properties"]["observationStations"]))
         /\ replies' = Append(replies, doc)
         /\ IF ~HasKey(doc, "observationStations")
            THEN /\ pc' = "raised"
                 /\ outcome' = Raise("KeyError", "observationStations", Empty)
                 /\ UNCHANGED <<stations, index, params, request_uri>>
            ELSE /\ stations' = doc["observationStations"]
                 /\ StationLoop(doc["observationStations"], 0)
    /\ UNCHANGED <<op, args, forecastVars, stations_observations_params, points_res,
                   observations, cursor, delivered, pulls>>

\* response = self.stations_observations(...) from its transport request on,
\* then the generator up to its next yield, transport request, end or exception.
\* type(response) == dict holds exactly when stations_observations returned the
\* transport's document itself.
GenFetchObservations ==
    /\ op = "get_observations_by_lat_lon"
    /\ pc = "gen_observations"
    /\ \E doc \in ObservationDocs :
         LET r == StationsObservationsExit(params, doc)
         IN  /\ requests' = Append(requests, request_uri)
             /\ replies' = Append(replies, doc)
             /\ IF r.kind = "raise"
                THEN /\ pc' = "raised"
                     /\ outcome' = r
                     /\ UNCHANGED <<index, params, request_uri, observations, cursor,
                                    delivered>>
                ELSE IF ReturnsDocument(params) /\ ~HasKey(r.value, "features")
                THEN /\ pc' = "raised"
                     /\ outcome' = Raise("KeyError", "features", Empty)
                     /\ UNCHANGED <<index, params, request_uri, observations, cursor,
                                    delivered>>
                ELSE LET obs == IF ReturnsDocument(params) THEN r.value["features"]
                                ELSE r.value
                     IN  /\ observations' = obs
                         /\ IF HasNextObservation(obs, 0)
                            THEN /\ cursor' = 1
                                 /\ delivered' = Append(delivered, GetProperties(obs[1]))
                                 /\ pc' = "suspended"
                                 /\ UNCHANGED <<outcome, index, params, request_uri>>
                            ELSE /\ cursor' = 0
                                 /\ delivered' = delivered
                                 /\ StationLoop(stations, index + 1)
    /\ UNCHANGED <<op, args, forecastVars, stations_observations_params, points_res,
                   stations, pulls>>

-----------------------------------------------------------------------------
(* active_alerts *)

ZoneIdArgs == {"AKZ017", "NYZ072"}

AreaArgs == {"AK", "NY"}

RegionArgs == {"AL", "GM"}

\* **params of active_alerts: each of zone_id, area and region given or not
AlertParamArgs ==
    { (IF z = "" THEN Empty ELSE "zone_id" :> z)
      @@ (IF a = "" THEN Empty ELSE "area" :> a)
      @@ (IF r = "" THEN Empty ELSE "region" :> r) :
          z \in ZoneIdArgs \cup {""}, a \in AreaArgs \cup {""}, r \in RegionArgs \cup {""} }

ActiveAlertsArgs == [count : BOOLEAN, params : AlertParamArgs]

\* the documents the alerts resources may answer with
AlertDocs ==
    { [features |-> <<>>],
      [total |-> 1],
      [status |-> 503, detail |-> "d1"] }

\* the request path active_alerts chooses (lines 510-531)
ActiveAlertsPath(count, p) ==
    IF count THEN <<"alerts", "count">>
    ELSE IF HasKey(p, "zone_id") THEN <<"alerts", "active", "zone", p["zone_id"]>>
    ELSE IF HasKey(p, "area") THEN <<"alerts", "active", "area", p["area"]>>
    ELSE IF HasKey(p, "region") THEN <<"alerts", "active", "region", p["region"]>>
    ELSE <<"alerts", "active">>

\* active_alerts(count, **params) up to its transport request
CallActiveAlerts ==
    /\ op = "idle"
    /\ op' = "active_alerts"
    /\ pc' = "alerts"
    /\ \E a \in ActiveAlertsArgs : args' = a
    /\ UNCHANGED <<requests, replies, outcome, forecastVars, observationVars, streamVars>>

\* return self.make_get_request(...): the one request of the call and its answer
FetchActiveAlerts ==
    /\ op = "active_alerts"
    /\ pc = "alerts"
    /\ \E doc \in AlertDocs :
         /\ requests' = Append(requests, Get(ActiveAlertsPath(args.count, args.params)))
         /\ replies' = Append(replies, doc)
         /\ outcome' = Return(doc)
    /\ pc' = "done"
    /\ UNCHANGED <<op, args, forecastVars, observationVars, streamVars>>

-----------------------------------------------------------------------------
(* Specifications *)

Init ==
    /\ op = "idle"
    /\ pc = "idle"
    /\ args = Empty
    /\ requests = <<>>
    /\ replies = <<>>
    /\ data_type = <<>>
    /\ uri = <<>>
    /\ points = Empty
    /\ responses = <<>>
    /\ params = Empty
    /\ request_uri = Get(<<>>)
    /\ stations_observations_params = Empty
    /\ points_res = Empty
    /\ stations = <<>>
    /\ index = 0
    /\ observations = <<>>
    /\ cursor = 0
    /\ delivered = <<>>
    /\ pulls = 0
    /\ outcome = NoOutcome

NextForecast ==
    \/ CallGetForecasts
    \/ CallPointsForecast
    \/ FetchPoints
    \/ FetchForecast

SpecForecast == Init /\ [][NextForecast]_vars

NextStationsObservations ==
    \/ CallStationsObservations
    \/ FetchObservations

SpecStationsObservations == Init /\ [][NextStationsObservations]_vars

NextObservations ==
    \/ CallGetObservations
    \/ CallGetObservationsByLatLon
    \/ ConsumerNext
    \/ ConsumerAbandon
    \/ GenFetchPoints
    \/ GenFetchStations
    \/ GenFetchObservations

SpecObservations == Init /\ [][NextObservations]_vars

NextActiveAlerts ==
    \/ CallActiveAlerts
    \/ FetchActiveAlerts

SpecActiveAlerts == Init /\ [][NextActiveAlerts]_vars

Next ==
    \/ NextForecast
    \/ NextStationsObservations
    \/ NextObservations
    \/ NextActiveAlerts

Spec == Init /\ [][Next]_vars

-----------------------------------------------------------------------------
(* Properties of the forecast path *)

\* the data types a call asked for, in order (a scalar counts as one)
RequestedTypes ==
    IF args.data_type.list THEN args.data_type.items ELSE <<args.data_type.item>>

InForecastCall == op \in {"get_forecasts", "points_forecast"}

LinkOf(dtype) ==
    CASE dtype = "hourly" -> HourlyLink
      [] dtype = "grid" -> GridLink
      [] OTHER -> ForecastLink

HasErrorMarker(doc) ==
    /\ "status" \in DOMAIN doc
    /\ doc["status"] = 503
    /\ "detail" \in DOMAIN doc

WellFormedPoints(doc) ==
    /\ "properties" \in DOMAIN doc
    /\ {"forecast", "forecastHourly", "forecastGridData"} \subseteq DOMAIN doc["properties"]

WellFormedForecast(dtype, doc) ==
    /\ ~HasErrorMarker(doc)
    /\ "properties" \in DOMAIN doc
    /\ (dtype # "grid" => "periods" \in DOMAIN doc["properties"])

\* the list of forecasts in what get_forecasts returned
ForecastsOf(o) == IF args.return_result_object THEN o.value.forecasts ELSE o.value

\* C1: when get_forecasts has finished a call whose data types are all among
\* hourly, grid and None and every document it fetched was well formed, it
\* returned a list with one element per requested type, the i-th being the
\* projection of the document fetched for the i-th type (its properties for
\* grid, its properties.periods otherwise), that document having been requested
\* from the link of the i-th type.
C1_ForecastsAligned ==
    ( /\ op = "get_forecasts"
      /\ pc = "done"
      /\ args.known
      /\ \A i \in 1..Len(RequestedTypes) : RequestedTypes[i] \in {"hourly", "grid", "None"}
      /\ Len(replies) >= 1
      /\ WellFormedPoints(replies[1])
      /\ \A i \in 2..Len(replies) : WellFormedForecast(RequestedTypes[i - 1], replies[i]) )
    => /\ outcome.kind = "return"
       /\ Len(requests) = Len(RequestedTypes) + 1
       /\ Len(ForecastsOf(outcome)) = Len(RequestedTypes)
       /\ \A i \in 1..Len(RequestedTypes) :
            /\ requests[i + 1] = Get(LinkOf(RequestedTypes[i]))
            /\ ForecastsOf(outcome)[i] =
                 IF RequestedTypes[i] = "grid"
                 THEN replies[i + 1]["properties"]
                 ELSE replies[i + 1]["properties"]["periods"]

C1_Witness ==
    /\ op = "get_forecasts"
    /\ pc = "done"
    /\ args.data_type.list
    /\ args.data_type.items = <<"hourly", "grid">>
    /\ ~args.return_result_object
    /\ Len(replies) = 3
    /\ replies[2] = [properties |-> PropsA]
    /\ replies[3] = [properties |-> PropsG]
    /\ outcome = Return(<<PropsA.periods, PropsG>>)

\* the first position whose fetched document fails get_forecasts' validation
FailsValidation(dtype, doc) == ~WellFormedForecast(dtype, doc)

FirstFailing ==
    CHOOSE i \in 1..Len(RequestedTypes) :
        /\ FailsValidation(RequestedTypes[i], replies[i + 1])
        /\ \A j \in 1..(i - 1) : ~FailsValidation(RequestedTypes[j], replies[j + 1])

FirstMarked ==
    CHOOSE i \in 2..Len(replies) :
        /\ HasErrorMarker(replies[i])
        /\ \A j \in 2..(i - 1) : ~HasErrorMarker(replies[j])

UpstreamErrorOf(doc) ==
    Raise("Exception", "Status: {}, NOAA API Error Response: {}",
          [status |-> doc["status"], detail |-> doc["detail"]])

IsSchemaError(o) ==
    /\ o.kind = "raise"
    /\ o.exc = "Exception"
    /\ o.msg \in {"\"properties\" attribute not found. Possible response json changes",
                  "\"periods\" attribute not found. Possible response json changes",
                  "Error: No Observation Stations found."}

\* C5 as stated: once get_forecasts has fetched every requested document, if
\* any of them carries status 503 with a detail, it failed with the upstream
\* error carrying the status and detail of the first such document.
C5_Original ==
    ( /\ op = "get_forecasts"
      /\ pc = "done"
      /\ Len(replies) = Len(RequestedTypes) + 1
      /\ \E i \in 2..Len(replies) : HasErrorMarker(replies[i]) )
    => outcome = UpstreamErrorOf(replies[FirstMarked])

\* C5 amended: once get_forecasts has fetched every requested document, if any
\* of them carries status 503 with a detail, it returns no result and fails
\* with the error of the first document, in requested order, that fails
\* validation: the upstream error with exactly that document's status and
\* detail when that document carries the marker (so always when no earlier
\* document lacks properties or periods), the schema error otherwise.
C5_FirstFailingWins ==
    ( /\ op = "get_forecasts"
      /\ pc = "done"
      /\ Len(replies) = Len(RequestedTypes) + 1
      /\ \E i \in 2..Len(replies) : HasErrorMarker(replies[i]) )
    => /\ outcome.kind = "raise"
       /\ IF HasErrorMarker(replies[FirstFailing + 1])
          THEN outcome = UpstreamErrorOf(replies[FirstFailing + 1])
          ELSE IsSchemaError(outcome)

C5_Witness ==
    /\ op = "get_forecasts"
    /\ pc = "done"
    /\ Len(replies) = 3
    /\ replies[2] = [status |-> 503, detail |-> "d2", properties |-> PropsA]
    /\ replies[3] = [status |-> 503, detail |-> "d1"]
    /\ outcome = Raise("Exception", "Status: {}, NOAA API Error Response: {}",
                       [status |-> 503, detail |-> "d2"])

\* C9: a points_forecast or get_forecasts call whose data-type list holds an
\* element outside hourly, grid and None issues no transport request at all,
\* and ends by raising.
C9_ValidationBeforeTransport ==
    ( /\ InForecastCall
      /\ \E i \in 1..Len(RequestedTypes) : RequestedTypes[i] \notin {"hourly", "grid", "None"} )
    => /\ requests = <<>>
       /\ pc = "done"
       /\ outcome.kind = "raise"

C9_Witness ==
    /\ op = "get_forecasts"
    /\ args.known
    /\ args.data_type.list
    /\ args.data_type.items = <<"grid", "daily">>
    /\ pc = "done"
    /\ requests = <<>>
    /\ outcome = Raise("AssertionError", "", Empty)

-----------------------------------------------------------------------------
(* Properties of stations_observations *)

InStationsObservations == op = "stations_observations"

\* the call passed every check and built its request
StationsObservationsAccepted ==
    /\ InStationsObservations
    /\ (pc = "request" \/ Len(requests) = 1)

\* C6: a stations_observations call with a non-empty station_id whose keyword
\* arguments hold both `current` and `recordId`, whatever their values and
\* whatever else is passed, raises the conflicting-parameters error and issues
\* no transport request.
C6_ConflictingParameters ==
    ( /\ InStationsObservations
      /\ args.station_id # ""
      /\ {"current", "recordId"} \subseteq DOMAIN args.params )
    => /\ pc = "done"
       /\ requests = <<>>
       /\ outcome = Raise("Exception", "Cannot have both 'current' and 'recordId'", Empty)

C6_Witness ==
    /\ InStationsObservations
    /\ args.station_id = "KJFK"
    /\ DOMAIN args.params = {"start", "limit", "current", "recordId"}
    /\ args.params["start"] = <<"2", "0", "2", "0", "/", "0", "2", "/", "0", "1">>
    /\ args.params["current"] = FALSE
    /\ pc = "done"
    /\ requests = <<>>
    /\ outcome.kind = "raise"

\* a full date-time: date characters, then T, then time characters, then one Z
IsFullDateTime(v) ==
    /\ Len(v) >= 19
    /\ v[Len(v)] = "Z"
    /\ v[Len(v) - 1] # "Z"
    /\ \A i \in 1..Len(v) : v[i] # " "
    /\ \E i \in 1..Len(v) :
          /\ v[i] = "T"
          /\ \A k \in 1..(i - 1) : v[k] \in Digits \cup {"-"}
          /\ \A k \in (i + 1)..(Len(v) - 1) : v[k] \in Digits \cup {":"}

\* C7 as stated: every start or end value that stations_observations accepted
\* and sent upstream in a query string is, once normalized, at least 19
\* characters long, ends in exactly one Z, holds no space and has T between
\* its date part and its time part.
C7_NormalizedShape ==
    ( /\ InStationsObservations
      /\ Len(requests) = 1
      /\ requests[1].hasQuery )
    => \A k \in {"start", "end"} \cap DOMAIN params : IsFullDateTime(params[k])

\* the padding each accepted value should get according to its format
PaddedByFormat(v, midnight) ==
    IF MatchDate(v) THEN v \o midnight
    ELSE IF MatchDateSpaceTime(v) THEN ReplaceChar(v, " ", "T") \o <<"Z">>
    ELSE v

\* C8 as stated: an accepted date-only value d becomes d + T00:00:00Z as start
\* and d + T23:59:59Z as end, an accepted space-separated date-time has its
\* space replaced by T and Z appended, and an accepted value in
\* date-time-with-seconds-and-Z form is passed through unchanged.
C8_PaddingByFormat ==
    StationsObservationsAccepted
    => /\ ("start" \in DOMAIN args.params
            => params["start"] = PaddedByFormat(args.params["start"], StartOfDay))
       /\ ("end" \in DOMAIN args.params
            => params["end"] = PaddedByFormat(args.params["end"], EndOfDay))

\* C10 as stated: when a stations_observations call with a non-empty mapping
\* holding neither `current` nor `recordId` issues its request, every
\* parameter of the normalized mapping is a key of the request's query string.
C10_AllParametersInQuery ==
    ( /\ InStationsObservations
      /\ Len(requests) = 1
      /\ DOMAIN args.params # {}
      /\ "current" \notin DOMAIN args.params
      /\ "recordId" \notin DOMAIN args.params )
    => /\ requests[1].hasQuery
       /\ DOMAIN params \subseteq DOMAIN requests[1].query

-----------------------------------------------------------------------------
(* Properties of the observation generator *)

InStream == op = "get_observations_by_lat_lon"

\* the upstream station list, once the generator has fetched it
UpstreamStations == replies[2]["observationStations"]

\* how many per-station observation requests have been issued
StationFetches == IF Len(requests) > 2 THEN Len(requests) - 2 ELSE 0

\* the number of records upstream returned for the k-th station fetched
RecordsOf(k) ==
    IF "features" \in DOMAIN replies[k + 2] THEN Len(replies[k + 2]["features"]) ELSE 0

RECURSIVE RecordsUpTo(_)
RecordsUpTo(k) == IF k = 0 THEN 0 ELSE RecordsUpTo(k - 1) + RecordsOf(k)

Smaller(a, b) == IF a < b THEN a ELSE b

\* C2 as stated: when the stream has been consumed to exhaustion over an
\* upstream list of L stations, the number of per-station fetches is
\* min(num_of_stations, L) for num_of_stations >= 0 and L for
\* num_of_stations < 0, the stations having been fetched in upstream order.
C2_StationBound ==
    ( /\ InStream
      /\ pc = "finished" )
    => /\ StationFetches =
            IF args.num_of_stations < 0 THEN Len(UpstreamStations)
            ELSE Smaller(args.num_of_stations, Len(UpstreamStations))
       /\ \A k \in 1..StationFetches :
            requests[k + 2].path =
                <<"stations", UpstreamStations[k][Len(UpstreamStations[k])], "observations">>

\* the stations fetched so far all of whose records the consumer has received
FullyDelivered == {k \in 1..StationFetches : RecordsUpTo(k) <= Len(delivered)}

C3_Lazy ==
    InStream =>
        /\ (pulls = 0 => requests = <<>>)
        /\ Len(delivered) <= pulls
        /\ StationFetches <= Cardinality(FullyDelivered) + 1
        /\ \A k \in 2..StationFetches :
              /\ Len(delivered) >= RecordsUpTo(k - 1)
              /\ pulls > RecordsUpTo(k - 1)

C3_Step ==
    /\ (requests' # requests => pc \in {"gen_points", "gen_stations", "gen_observations"})
    /\ (pc \in {"gen_points", "gen_stations", "gen_observations"} => pulls' = pulls)
    /\ (pc = "closed" => requests' = requests /\ pc' = "closed")

\* C3: the observation stream is pull-driven.  Nothing is requested before the
\* consumer first asks for a record; the observations of a station are
\* requested only once every record of the stations before it has been
\* delivered and the consumer has asked for one more, so the per-station
\* fetches never exceed the fully delivered stations by more than one; a
\* transport request is only ever issued while a request of the consumer is
\* being served; and once the consumer has abandoned the stream no transport
\* request is issued.
C3_PullDriven == []C3_Lazy /\ [][InStream => C3_Step]_vars

C3_Witness ==
    /\ InStream
    /\ pc = "closed"
    /\ StationFetches = 2
    /\ Len(UpstreamStations) = 3
    /\ RecordsOf(1) = 2
    /\ RecordsOf(2) = 2
    /\ Len(delivered) = 3
    /\ pulls = 3

\* C4 as stated: when the points document has no `properties`, the forecast
\* path and the observation stream both fail with the schema error, having
\* issued no request after the points request.
C4_PointsSchemaError ==
    ( /\ (InForecastCall \/ InStream)
      /\ Len(replies) >= 1
      /\ "properties" \notin DOMAIN replies[1] )
    => /\ Len(requests) = 1
       /\ pc \in {"done", "raised"}
       /\ IsSchemaError(outcome)

\* the payload the transport returned for the k-th station fetched
StationPayload(k) == replies[k + 2]

\* the records the stream owes for the first k stations fetched: the
\* `properties` of each feature, in order
RECURSIVE PropertiesUpTo(_)
PropertiesUpTo(k) ==
    IF k = 0 THEN <<>>
    ELSE PropertiesUpTo(k - 1)
         \o (IF "features" \in DOMAIN StationPayload(k)
             THEN [i \in 1..Len(StationPayload(k)["features"]) |->
                      GetProperties(StationPayload(k)["features"][i])]
             ELSE <<>>)

\* C11 as stated: in the observation stream, a station payload that is a single
\* document without `features` ends the stream there with the schema error
\* carrying that raw document, whether or not start / end were supplied, never
\* with a missing-key error and with no record yielded for that station; the
\* records yielded are otherwise the `properties` of the features, in order.
C11_FeaturesSchemaError ==
    InStream =>
        /\ \A k \in 1..StationFetches :
              ( /\ Len(replies) >= k + 2
                /\ "features" \notin DOMAIN StationPayload(k) )
              => /\ k = StationFetches
                 /\ pc = "raised"
                 /\ outcome = Raise("Exception", "", StationPayload(k))
                 /\ delivered = PropertiesUpTo(k - 1)
        /\ \E n \in 0..Len(PropertiesUpTo(StationFetches)) :
              delivered = SubSeq(PropertiesUpTo(StationFetches), 1, n)

-----------------------------------------------------------------------------
(* Properties of active_alerts *)

InActiveAlerts == op = "active_alerts"

\* the path the interface promises for a call
PromisedAlertsPath ==
    IF args.count THEN <<"alerts", "active", "count">>
    ELSE IF "zone_id" \in DOMAIN args.params
         THEN <<"alerts", "active", "zone", args.params["zone_id"]>>
    ELSE IF "area" \in DOMAIN args.params
         THEN <<"alerts", "active", "area", args.params["area"]>>
    ELSE IF "region" \in DOMAIN args.params
         THEN <<"alerts", "active", "region", args.params["region"]>>
    ELSE <<"alerts", "active">>

\* C12 as stated: a call of active_alerts issues exactly one request, and its
\* path lies under /alerts/active: /alerts/active/count when count is true,
\* otherwise /alerts/active/zone/{id}, /alerts/active/area/{id} or
\* /alerts/active/region/{id} for zone_id, area, region in that precedence,
\* and /alerts/active when none is supplied.
C12_ActiveAlertsPath ==
    InActiveAlerts =>
        /\ Len(requests) <= 1
        /\ pc = "done" =>
              /\ Len(requests) = 1
              /\ Len(requests[1].path) >= 2
              /\ SubSeq(requests[1].path, 1, 2) = <<"alerts", "active">>
              /\ requests[1].path = PromisedAlertsPath

=============================================================================
